---- MODULE Spec2Model ----
(***************************************************************************)
(* Model of kitipy/docker/stack.py: the two stack backends (ComposeStack,  *)
(* SwarmStack), their lazily loaded configuration, the commands they hand  *)
(* to the Executor, and the load_stack factory.                            *)
(*                                                                         *)
(* Python values are modelled with their types, because several of the     *)
(* behaviours below are decided by them (tuple + str, list += str, a bool  *)
(* given to ' '.join).  A Python str is a sequence of one-character        *)
(* strings; a command is a record of its literal base, the flags the       *)
(* encoder appended and the positional words that follow.                  *)
(***************************************************************************)
EXTENDS Integers, Sequences, FiniteSets, TLC

VARIABLES
    stacks,    \* instance id -> backend object (its fields)
    rendered,  \* history: instance id -> a render command was dispatched for it
    failed,    \* history: instance id -> a render of it failed
    args,      \* the keyword arguments the caller passes to the next call
    last,      \* history: the last operation, its outcome and its Executor calls
    ctx,       \* the (config, stack_name) last given to load_stack
    built      \* the object load_stack returned (NoStack when it raised)

vars == <<stacks, rendered, failed, args, last, ctx, built>>

----------------------------------------------------------------------------
(* Bounds *)

MaxKw == 2      \* keyword arguments in one call
MaxOut == 2     \* characters of captured stdout of a ps command

----------------------------------------------------------------------------
(* Python values *)

None == [t |-> "none", b |-> FALSE, s |-> <<>>, q |-> <<>>]
Bool(x) == [t |-> "bool", b |-> x, s |-> <<>>, q |-> <<>>]
Str(x) == [t |-> "str", b |-> FALSE, s |-> x, q |-> <<>>]
Tuple(x) == [t |-> "tuple", b |-> FALSE, s |-> <<>>, q |-> x]
List(x) == [t |-> "list", b |-> FALSE, s |-> <<>>, q |-> x]

\* bool(v)
Truthy(v) ==
    CASE v.t = "none" -> FALSE
      [] v.t = "bool" -> v.b
      [] v.t = "str" -> v.s # <<>>
      [] OTHER -> v.q # <<>>

\* Iterating a str yields its characters, each a str of length one.
Chars(s) == [n \in 1..Len(s) |-> <<s[n]>>]

\* x += y (x + y where x has no __iadd__): [ok, v]; ~ok is a TypeError.
PyIAdd(x, y) ==
    CASE x.t = "tuple" /\ y.t = "tuple" -> [ok |-> TRUE, v |-> Tuple(x.q \o y.q)]
      [] x.t = "str" /\ y.t = "str" -> [ok |-> TRUE, v |-> Str(x.s \o y.s)]
      [] x.t = "list" /\ y.t = "str" -> [ok |-> TRUE, v |-> List(x.q \o Chars(y.s))]
      [] x.t = "list" /\ y.t \in {"tuple", "list"} -> [ok |-> TRUE, v |-> List(x.q \o y.q)]
      [] OTHER -> [ok |-> FALSE, v |-> None]

\* ' '.join(v): the words joined; ~ok is a TypeError (v is not iterable).
Join(v) ==
    CASE v.t \in {"tuple", "list"} -> [ok |-> TRUE, words |-> v.q]
      [] v.t = "str" -> [ok |-> TRUE, words |-> Chars(v.s)]
      [] OTHER -> [ok |-> FALSE, words |-> <<>>]

\* '%d' % n for the replica ids used here
Digits(n) == IF n = 1 THEN <<"1">> ELSE IF n = 2 THEN <<"2">> ELSE <<"?">>

----------------------------------------------------------------------------
(* Literals of the source *)

K_filter == <<"f", "i", "l", "t", "e", "r">>
K_services == <<"s", "e", "r", "v", "i", "c", "e", "s">>
K_pipe == <<"_", "p", "i", "p", "e">>
K_check == <<"_", "c", "h", "e", "c", "k">>
K_force == <<"f", "o", "r", "c", "e">>
K_rm == <<"r", "m">>
K_prune == <<"p", "r", "u", "n", "e">>
K_resolve_image == <<"r", "e", "s", "o", "l", "v", "e", "-", "i", "m", "a", "g", "e">>
never == <<"n", "e", "v", "e", "r">>
NamespaceLabel == <<"l", "a", "b", "e", "l", "=", "c", "o", "m", ".", "d", "o", "c", "k", "e", "r", ".", "s", "t", "a", "c", "k", ".", "n", "a", "m", "e", "s", "p", "a", "c", "e", "=">>
DefaultReplicaId == 1

(* Sample inputs *)

api == <<"a", "p", "i">>
shop == <<"s", "h", "o", "p">>
svc_web == <<"w", "e", "b">>
svc_db == <<"d", "b">>
file_yml == <<"x", ".", "y", "m", "l">>
old_yml == <<"o", "l", "d", ".", "y", "m", "l">>
Cwd == <<"/", "a", "p", "p">>
srv == <<"/", "s", "r", "v">>
bin == <<"/", "b", "i", "n">>
flt == <<"a", "=", "b">>
ls == <<"l", "s">>

----------------------------------------------------------------------------
(* Keyword arguments: an ordered dict, a sequence of [k, v] with distinct k *)

Keys(kw) == {kw[n].k : n \in 1..Len(kw)}
Has(kw, k) == k \in Keys(kw)
Get(kw, k) == kw[CHOOSE n \in 1..Len(kw) : kw[n].k = k].v

\* kw[k] = v
SetItem(kw, k, v) ==
    IF Has(kw, k)
    THEN [n \in 1..Len(kw) |-> IF kw[n].k = k THEN [k |-> k, v |-> v] ELSE kw[n]]
    ELSE Append(kw, [k |-> k, v |-> v])

\* kw.setdefault(k, v)
SetDefault(kw, k, v) == IF Has(kw, k) THEN kw ELSE Append(kw, [k |-> k, v |-> v])

\* A call binds a keyword to the parameter of that name; the rest is **kwargs.
Param(call, name, default) == IF Has(call, name) THEN Get(call, name) ELSE default
Rest(call, params) == SelectSeq(call, LAMBDA a : a.k \notin params)

----------------------------------------------------------------------------
(* kitipy.utils.append_cmd_flags: the flags a kwargs dict encodes to *)

Dash(k) == [n \in 1..Len(k) |-> IF k[n] = "_" THEN "-" ELSE k[n]]

Bare(k) == [key |-> Dash(k), bare |-> TRUE, val |-> <<>>]
Valued(k, x) == [key |-> Dash(k), bare |-> FALSE, val |-> x]

FlagsOf(a) ==
    CASE a.v.t = "bool" -> IF a.v.b THEN <<Bare(a.k)>> ELSE <<>>
      [] a.v.t = "str" -> <<Valued(a.k, a.v.s)>>
      [] a.v.t \in {"tuple", "list"} -> [n \in 1..Len(a.v.q) |-> Valued(a.k, a.v.q[n])]
      [] OTHER -> <<>>

RECURSIVE append_cmd_flags(_)
append_cmd_flags(kw) ==
    IF kw = <<>> THEN <<>> ELSE FlagsOf(Head(kw)) \o append_cmd_flags(Tail(kw))

\* One shell command: base literal, words before the flags, flags, words after,
\* and the literal the source appends ("" when none).
Cmd(base, pre, flags, tail, post) ==
    [base |-> base, pre |-> pre, flags |-> flags, tail |-> tail, post |-> post]

\* A plan is what a method hands to _run, or the exception it raises first.
Plan(chain, pg, p, cg, c) ==
    [err |-> "", chain |-> chain, pipeGiven |-> pg, pipe |-> p, checkGiven |-> cg, check |-> c]
Raise(kind) ==
    [err |-> kind, chain |-> <<>>, pipeGiven |-> FALSE, pipe |-> FALSE,
     checkGiven |-> FALSE, check |-> FALSE]

----------------------------------------------------------------------------
(* The Executor (kitipy.executor, an external collaborator) *)

ExecutorDefaultPipe == FALSE
ExecutorDefaultCheck == TRUE

Docs == {"empty", "services", "full", "invalid"}

\* Texts of at most MaxOut characters over a letter and the newline.
Texts == UNION {[1..n -> {"x", "\n"}] : n \in 0..MaxOut}

ComposeRender == <<Cmd("docker-compose config 2>/dev/null", <<>>, <<>>, <<>>, "")>>
SwarmRender == <<Cmd("docker-compose config", <<>>, <<>>, <<>>, "")>>
IsRender(chain) == chain \in {ComposeRender, SwarmRender}
IsPs(chain) ==
    /\ Len(chain) = 1
    /\ chain[1].base \in {"docker-compose ps", "docker service ls"}

\* What a process run can come back with: exit code, captured stdout (text of
\* a ps command, document of a render), both only when output is piped.
Outcomes(plan) ==
    LET pipe == IF plan.pipeGiven THEN plan.pipe ELSE ExecutorDefaultPipe
    IN {[rc |-> rc, stdout |-> txt, doc |-> d] :
            rc \in {0, 1},
            txt \in IF pipe /\ IsPs(plan.chain) THEN Texts ELSE {<<>>},
            d \in IF pipe /\ IsRender(plan.chain) THEN Docs ELSE {"none"}}

\* Executor.run(cmd, env=, cwd=, pipe=, check=): raises on a nonzero exit
\* when check is enabled, else returns the completed process.
ExecutorRun(chain, env, cwd, plan, out) ==
    LET check == IF plan.checkGiven THEN plan.check ELSE ExecutorDefaultCheck
    IN [cmd |-> chain, env |-> env, cwd |-> cwd,
        pipeGiven |-> plan.pipeGiven,
        pipe |-> IF plan.pipeGiven THEN plan.pipe ELSE ExecutorDefaultPipe,
        checkGiven |-> plan.checkGiven,
        check |-> check,
        rc |-> out.rc, stdout |-> out.stdout, doc |-> out.doc,
        raised |-> check /\ out.rc # 0]

\* str.splitlines()
RECURSIVE splitlines(_)
splitlines(s) ==
    IF s = <<>> THEN <<>>
    ELSE IF \E n \in 1..Len(s) : s[n] = "\n"
         THEN LET n == CHOOSE m \in 1..Len(s) :
                          /\ s[m] = "\n"
                          /\ \A j \in 1..(m - 1) : s[j] # "\n"
              IN <<SubSeq(s, 1, n - 1)>> \o splitlines(SubSeq(s, n + 1, Len(s)))
         ELSE <<s>>

\* yaml.safe_load of a rendered document (an empty document loads as None).
NoneConfig ==
    [isNone |-> TRUE, hasFile |-> FALSE, file |-> <<>>, hasServices |-> FALSE, services |-> <<>>]
yaml_safe_load(doc) ==
    CASE doc = "services" ->
            [isNone |-> FALSE, hasFile |-> FALSE, file |-> <<>>,
             hasServices |-> TRUE, services |-> <<svc_web, svc_db>>]
      [] doc = "full" ->
            [isNone |-> FALSE, hasFile |-> TRUE, file |-> file_yml,
             hasServices |-> TRUE, services |-> <<svc_db, svc_web>>]
      [] OTHER -> NoneConfig

----------------------------------------------------------------------------
(* Environment dicts: key -> value *)

Environ == ("PATH" :> bin) @@ ("COMPOSE_FILE" :> old_yml)

\* d.update({k: v})
Update(d, k, v) == [x \in DOMAIN d \cup {k} |-> IF x = k THEN v ELSE d[x]]

NoStack ==
    [kind |-> "none", name |-> <<>>, env |-> Environ, basedir |-> <<>>,
     loaded |-> FALSE, config |-> NoneConfig]

----------------------------------------------------------------------------
(* ComposeStack *)

ComposeStack_init(stack_name, file, basedir) ==
    [kind |-> "compose",
     name |-> stack_name,
     env |-> Update(Update(Environ, "COMPOSE_PROJECT_NAME", stack_name), "COMPOSE_FILE", file),
     basedir |-> basedir,
     loaded |-> FALSE,
     config |-> NoneConfig]

ComposeStack_run(self, plan, out) ==
    ExecutorRun(plan.chain, self.env, self.basedir, plan, out)

\* Mutant: a failed render marks the object loaded, with an empty config.
ComposeStack_load_config_LoadsOnFailure(self, out) ==
    IF self.loaded THEN [self |-> self, calls |-> <<>>, raised |-> ""]
    ELSE LET res == ComposeStack_run(self, Plan(ComposeRender, TRUE, TRUE, FALSE, FALSE), out)
         IN IF res.raised
            THEN [self |-> [self EXCEPT !.loaded = TRUE], calls |-> <<res>>,
                  raised |-> "CalledProcessError"]
            ELSE IF res.doc = "invalid"
            THEN [self |-> [self EXCEPT !.loaded = TRUE], calls |-> <<res>>,
                  raised |-> "YAMLError"]
            ELSE [self |-> [self EXCEPT !.config = yaml_safe_load(res.doc), !.loaded = TRUE],
                  calls |-> <<res>>, raised |-> ""]

\* _load_config: [self, calls, raised]
ComposeStack_load_config(self, out) ==
    IF self.loaded THEN [self |-> self, calls |-> <<>>, raised |-> ""]
    ELSE LET res == ComposeStack_run(self, Plan(ComposeRender, TRUE, TRUE, FALSE, FALSE), out)
         IN IF res.raised
            THEN [self |-> self, calls |-> <<res>>, raised |-> "CalledProcessError"]
            ELSE IF res.doc = "invalid"
            THEN [self |-> self, calls |-> <<res>>, raised |-> "YAMLError"]
            ELSE [self |-> [self EXCEPT !.config = yaml_safe_load(res.doc), !.loaded = TRUE],
                  calls |-> <<res>>, raised |-> ""]

ComposeStack_check_config(self) ==
    Plan(<<Cmd("docker-compose config 2>&1 1>/dev/null", <<>>, <<>>, <<>>, "")>>,
         FALSE, FALSE, FALSE, FALSE)

\* The shape build, push, up, restart, ps and logs share:
\* '%s %s' % (append_cmd_flags(base, **kwargs), ' '.join(services))
ServicesCmd(base, kwargs, services, post, _pipe, _check) ==
    LET flags == append_cmd_flags(kwargs)
        joined == Join(services)
    IN IF ~joined.ok THEN Raise("TypeError")
       ELSE Plan(<<Cmd(base, <<>>, flags, joined.words, post)>>, TRUE, _pipe.b, TRUE, _check.b)

ComposeStack_build(self, call) ==
    ServicesCmd("docker-compose build", Rest(call, {K_services, K_pipe, K_check}),
                Param(call, K_services, List(<<>>)), "",
                Param(call, K_pipe, Bool(FALSE)), Param(call, K_check, Bool(TRUE)))

ComposeStack_push(self, call) ==
    ServicesCmd("docker-compose push", Rest(call, {K_services, K_pipe, K_check}),
                Param(call, K_services, List(<<>>)), "",
                Param(call, K_pipe, Bool(FALSE)), Param(call, K_check, Bool(TRUE)))

ComposeStack_up(self, call) ==
    ServicesCmd("docker-compose up", Rest(call, {K_services, K_pipe, K_check}),
                Param(call, K_services, List(<<>>)), "",
                Param(call, K_pipe, Bool(FALSE)), Param(call, K_check, Bool(TRUE)))

ComposeStack_down(self, call) ==
    Plan(<<Cmd("docker-compose down", <<>>,
               append_cmd_flags(Rest(call, {K_pipe, K_check})), <<>>, "")>>,
         TRUE, Param(call, K_pipe, Bool(FALSE)).b,
         TRUE, Param(call, K_check, Bool(TRUE)).b)

ComposeStack_restart(self, call) ==
    LET given == Param(call, K_services, None)
        services == IF given.t = "none" THEN List(<<>>) ELSE given
    IN ServicesCmd("docker-compose restart", Rest(call, {K_services, K_pipe, K_check}),
                   services, "",
                   Param(call, K_pipe, Bool(FALSE)), Param(call, K_check, Bool(TRUE)))

ComposeStack_ps(self, call) ==
    LET given == Rest(call, {K_services, K_pipe, K_check})
        kwargs == IF Has(given, K_filter) /\ ~Has(given, K_services)
                  THEN SetItem(given, K_services, Bool(TRUE))
                  ELSE given
    IN ServicesCmd("docker-compose ps", kwargs,
                   Param(call, K_services, List(<<>>)), "",
                   Param(call, K_pipe, Bool(TRUE)), Param(call, K_check, Bool(FALSE)))

ComposeStack_logs(self, call) ==
    LET flags == append_cmd_flags(Rest(call, {K_services, K_pipe, K_check}))
        joined == Join(Param(call, K_services, List(<<>>)))
    IN IF ~joined.ok THEN Raise("TypeError")
       ELSE Plan(<<Cmd("docker-compose logs", <<>>, flags, joined.words, "")>>,
                 FALSE, FALSE, FALSE, FALSE)

ComposeStack_exec(self, service, cmd, call) ==
    LET flags == append_cmd_flags(Rest(call, {K_pipe, K_check}))
        joined == Join(cmd)
    IN IF ~joined.ok THEN Raise("TypeError")
       ELSE Plan(<<Cmd("docker-compose exec", <<>>, flags, <<service>> \o joined.words, "")>>,
                 TRUE, Param(call, K_pipe, Bool(FALSE)).b,
                 TRUE, Param(call, K_check, Bool(TRUE)).b)

ComposeStack_run_service(self, service, cmd, call) ==
    LET given == Rest(call, {K_pipe, K_check})
        kwargs == IF Len(given) = 0 THEN <<[k |-> K_rm, v |-> Bool(TRUE)]>> ELSE given
    IN Plan(<<Cmd("docker-compose run", <<>>, append_cmd_flags(kwargs), <<service, cmd.s>>, "")>>,
            TRUE, Param(call, K_pipe, Bool(FALSE)).b,
            TRUE, Param(call, K_check, Bool(TRUE)).b)

ComposeStack_inspect(self, service, replica_id, call) ==
    Plan(<<Cmd("docker inspect", <<>>, append_cmd_flags(Rest(call, {K_pipe, K_check})),
               <<self.name \o <<"_">> \o service \o <<"_">> \o Digits(replica_id)>>, "")>>,
         TRUE, Param(call, K_pipe, Bool(FALSE)).b,
         TRUE, Param(call, K_check, Bool(TRUE)).b)

ComposeStack_raw(self, words) ==
    Plan(<<Cmd("docker-compose", <<>>, <<>>, words, "")>>, FALSE, FALSE, FALSE, FALSE)

----------------------------------------------------------------------------
(* SwarmStack *)

\* Mutant: the environment is built as ComposeStack builds it.
SwarmStack_init_Ambient(stack_name, file, basedir) ==
    [kind |-> "swarm",
     name |-> stack_name,
     env |-> Update(Update(Environ, "COMPOSE_PROJECT_NAME", stack_name), "COMPOSE_FILE", file),
     basedir |-> basedir,
     loaded |-> FALSE,
     config |-> NoneConfig]

SwarmStack_init(stack_name, file, basedir) ==
    [kind |-> "swarm",
     name |-> stack_name,
     env |-> ("COMPOSE_FILE" :> file),
     basedir |-> basedir,
     loaded |-> FALSE,
     config |-> NoneConfig]

SwarmStack_run(self, plan, out) ==
    ExecutorRun(plan.chain, self.env, self.basedir, plan, out)

\* Mutant: no early return when the config is loaded already.
SwarmStack_load_config_Always(self, out) ==
    LET res == SwarmStack_run(self, Plan(SwarmRender, TRUE, TRUE, FALSE, FALSE), out)
    IN IF res.raised
       THEN [self |-> self, calls |-> <<res>>, raised |-> "CalledProcessError"]
       ELSE IF res.doc = "invalid"
       THEN [self |-> self, calls |-> <<res>>, raised |-> "YAMLError"]
       ELSE [self |-> [self EXCEPT !.config = yaml_safe_load(res.doc), !.loaded = TRUE],
             calls |-> <<res>>, raised |-> ""]

\* _load_config: [self, calls, raised]
SwarmStack_load_config(self, out) ==
    IF self.loaded THEN [self |-> self, calls |-> <<>>, raised |-> ""]
    ELSE LET res == SwarmStack_run(self, Plan(SwarmRender, TRUE, TRUE, FALSE, FALSE), out)
         IN IF res.raised
            THEN [self |-> self, calls |-> <<res>>, raised |-> "CalledProcessError"]
            ELSE IF res.doc = "invalid"
            THEN [self |-> self, calls |-> <<res>>, raised |-> "YAMLError"]
            ELSE [self |-> [self EXCEPT !.config = yaml_safe_load(res.doc), !.loaded = TRUE],
                  calls |-> <<res>>, raised |-> ""]

SwarmStack_check_config(self) ==
    Plan(<<Cmd("docker-compose config 2>&1 1>/dev/null", <<>>, <<>>, <<>>,
               "| grep -v \" Compose does not support 'deploy' configuration\"")>>,
         FALSE, FALSE, FALSE, FALSE)

SwarmStack_build(self, call) ==
    ServicesCmd("docker-compose build", Rest(call, {K_services, K_pipe, K_check}),
                Param(call, K_services, List(<<>>)),
                "2>&1 | grep -v \"External secrets are not available\"",
                Param(call, K_pipe, Bool(FALSE)), Param(call, K_check, Bool(TRUE)))

SwarmStack_push(self, call) ==
    ServicesCmd("docker-compose push", Rest(call, {K_services, K_pipe, K_check}),
                Param(call, K_services, List(<<>>)), "",
                Param(call, K_pipe, Bool(FALSE)), Param(call, K_check, Bool(TRUE)))

\* self is the object after self.config was read
SwarmStack_up(self, call) ==
    LET kwargs == SetDefault(SetDefault(Rest(call, {K_services, K_pipe, K_check}),
                                        K_resolve_image, Str(never)),
                             K_prune, Bool(TRUE))
    IN IF self.config.isNone THEN Raise("TypeError")
       ELSE IF ~self.config.hasFile THEN Raise("KeyError")
       ELSE Plan(<<Cmd("docker stack deploy -c", <<self.config.file>>,
                       append_cmd_flags(kwargs), <<self.name>>, "")>>,
                 TRUE, Param(call, K_pipe, Bool(FALSE)).b,
                 TRUE, Param(call, K_check, Bool(TRUE)).b)

SwarmStack_down(self, call) ==
    Plan(<<Cmd("docker stack rm", <<>>,
               append_cmd_flags(Rest(call, {K_pipe, K_check})), <<self.name>>, "")>>,
         TRUE, Param(call, K_pipe, Bool(FALSE)).b,
         TRUE, Param(call, K_check, Bool(TRUE)).b)

\* restart reads self.config only when services is None
RestartReadsConfig(call) == Param(call, K_services, None).t = "none"

\* Mutant: one update command for the first service only.
SwarmStack_restart_FirstOnly(self, call) ==
    LET given == Param(call, K_services, None)
        kwargs == SetItem(Rest(call, {K_services, K_pipe, K_check}), K_force, Bool(TRUE))
        basecmd == append_cmd_flags(kwargs)
        services == IF given.t = "none" THEN Tuple(self.config.services) ELSE given
        iter == Join(services)
    IN IF given.t = "none" /\ self.config.isNone THEN Raise("TypeError")
       ELSE IF given.t = "none" /\ ~self.config.hasServices THEN Raise("KeyError")
       ELSE IF ~iter.ok THEN Raise("TypeError")
       ELSE Plan([n \in 1..(IF Len(iter.words) > 0 THEN 1 ELSE 0) |->
                     Cmd("docker service update ", <<>>, basecmd, <<iter.words[n]>>, "")],
                 TRUE, Param(call, K_pipe, Bool(FALSE)).b,
                 TRUE, Param(call, K_check, Bool(TRUE)).b)

\* self is the object after self.config was read (when it is read)
SwarmStack_restart(self, call) ==
    LET given == Param(call, K_services, None)
        kwargs == SetItem(Rest(call, {K_services, K_pipe, K_check}), K_force, Bool(TRUE))
        basecmd == append_cmd_flags(kwargs)
        services == IF given.t = "none" THEN Tuple(self.config.services) ELSE given
        iter == Join(services)
    IN IF given.t = "none" /\ self.config.isNone THEN Raise("TypeError")
       ELSE IF given.t = "none" /\ ~self.config.hasServices THEN Raise("KeyError")
       ELSE IF ~iter.ok THEN Raise("TypeError")
       ELSE Plan([n \in 1..Len(iter.words) |->
                     Cmd("docker service update ", <<>>, basecmd, <<iter.words[n]>>, "")],
                 TRUE, Param(call, K_pipe, Bool(FALSE)).b,
                 TRUE, Param(call, K_check, Bool(TRUE)).b)

SwarmStack_ps(self, call) ==
    LET given == Rest(call, {K_services, K_pipe, K_check})
        kwargs == SetItem(given, K_filter,
                          IF ~Has(given, K_filter) THEN Tuple(<<>>) ELSE Get(given, K_filter))
        sum == PyIAdd(Get(kwargs, K_filter), Str(NamespaceLabel \o self.name))
    IN IF ~sum.ok THEN Raise("TypeError")
       ELSE ServicesCmd("docker service ls", SetItem(kwargs, K_filter, sum.v),
                        Param(call, K_services, List(<<>>)), "",
                        Param(call, K_pipe, Bool(TRUE)), Param(call, K_check, Bool(FALSE)))

SwarmStack_logs(self, call) ==
    ServicesCmd("docker-compose logs", Rest(call, {K_services, K_pipe, K_check}),
                Param(call, K_services, List(<<>>)), "",
                Param(call, K_pipe, Bool(FALSE)), Param(call, K_check, Bool(TRUE)))

SwarmStack_exec(self, service, cmd, call) ==
    LET flags == append_cmd_flags(Rest(call, {K_pipe, K_check}))
        joined == Join(cmd)
    IN IF ~joined.ok THEN Raise("TypeError")
       ELSE Plan(<<Cmd("docker-compose exec", <<>>, flags, <<service>> \o joined.words, "")>>,
                 TRUE, Param(call, K_pipe, Bool(FALSE)).b,
                 TRUE, Param(call, K_check, Bool(TRUE)).b)

SwarmStack_run_service(self, service, cmd, call) ==
    LET given == Rest(call, {K_pipe, K_check})
        kwargs == IF Len(given) = 0 THEN <<[k |-> K_rm, v |-> Bool(TRUE)]>> ELSE given
    IN Plan(<<Cmd("docker-compose run", <<>>, append_cmd_flags(kwargs), <<service, cmd.s>>, "")>>,
            TRUE, Param(call, K_pipe, Bool(FALSE)).b,
            TRUE, Param(call, K_check, Bool(TRUE)).b)

SwarmStack_inspect(self, service, replica_id, call) ==
    Plan(<<Cmd("docker inspect", <<>>, append_cmd_flags(Rest(call, {K_pipe, K_check})),
               <<self.name \o <<"_">> \o service \o <<"_">> \o Digits(replica_id)>>, "")>>,
         TRUE, Param(call, K_pipe, Bool(FALSE)).b,
         TRUE, Param(call, K_check, Bool(TRUE)).b)

----------------------------------------------------------------------------
(* load_stack *)

\* d.get(k, None)
DictGet(d, k) == IF k \in DOMAIN d THEN d[k] ELSE None

\* Mutant: a swarm key selects SwarmStack whatever its value.
load_stack_SwarmKey(config, stack_name) ==
    IF ~config.hasStacks THEN [raised |-> "BadParameter", stack |-> NoStack]
    ELSE IF stack_name \notin DOMAIN config.stacks
    THEN [raised |-> "BadParameter", stack |-> NoStack]
    ELSE LET stack_config == config.stacks[stack_name]
             path == DictGet(stack_config, "path")
             stack_path == IF path.t = "none" THEN Cwd ELSE path.s
             stack_file == DictGet(stack_config, "file")
         IN IF stack_file.t = "none"
            THEN IF "name" \in DOMAIN stack_config
                 THEN [raised |-> "RuntimeError", stack |-> NoStack]
                 ELSE [raised |-> "KeyError", stack |-> NoStack]
            ELSE IF "swarm" \in DOMAIN stack_config
            THEN [raised |-> "", stack |-> SwarmStack_init(stack_name, stack_file.s, stack_path)]
            ELSE [raised |-> "", stack |-> ComposeStack_init(stack_name, stack_file.s, stack_path)]

\* [raised, stack]: the exception raised ("" when none) and the object returned
load_stack(config, stack_name) ==
    IF ~config.hasStacks THEN [raised |-> "BadParameter", stack |-> NoStack]
    ELSE IF stack_name \notin DOMAIN config.stacks
    THEN [raised |-> "BadParameter", stack |-> NoStack]
    ELSE LET stack_config == config.stacks[stack_name]
             path == DictGet(stack_config, "path")
             stack_path == IF path.t = "none" THEN Cwd ELSE path.s
             stack_file == DictGet(stack_config, "file")
         IN IF stack_file.t = "none"
            THEN IF "name" \in DOMAIN stack_config
                 THEN [raised |-> "RuntimeError", stack |-> NoStack]
                 ELSE [raised |-> "KeyError", stack |-> NoStack]
            ELSE IF "swarm" \in DOMAIN stack_config /\ Truthy(stack_config["swarm"])
            THEN [raised |-> "", stack |-> SwarmStack_init(stack_name, stack_file.s, stack_path)]
            ELSE [raised |-> "", stack |-> ComposeStack_init(stack_name, stack_file.s, stack_path)]

----------------------------------------------------------------------------
(* Inputs *)

Instances == {1, 2}
StackNames == {api, shop}

KeyOrder == <<K_services, K_filter, K_pipe, K_check>>
Rank(k) == CHOOSE n \in 1..Len(KeyOrder) : KeyOrder[n] = k

ArgPairs ==
    {[k |-> K_services, v |-> v] : v \in {List(<<svc_web>>), Bool(FALSE)}}
    \cup {[k |-> K_filter, v |-> v] : v \in {None, Str(flt), Tuple(<<flt>>), List(<<flt>>)}}
    \cup {[k |-> K_pipe, v |-> Bool(b)] : b \in BOOLEAN}
    \cup {[k |-> K_check, v |-> Bool(b)] : b \in BOOLEAN}

\* The keyword arguments of one call: at most MaxKw of them, no keyword twice.
Calls ==
    {c \in UNION {[1..n -> ArgPairs] : n \in 0..MaxKw} :
        \A n \in 1..(Len(c) - 1) : Rank(c[n].k) < Rank(c[n + 1].k)}

ServiceArg == svc_web
CmdArg == Str(ls)

EntryKeys == {"path", "file", "swarm", "name"}
EntryVals(k) ==
    CASE k = "path" -> {Str(srv)}
      [] k = "file" -> {Str(file_yml), None}
      [] k = "swarm" -> {Bool(TRUE), Bool(FALSE)}
      [] OTHER -> {Str(api)}
AllEntryVals == UNION {EntryVals(k) : k \in EntryKeys}
Entries ==
    {e \in UNION {[D -> AllEntryVals] : D \in SUBSET EntryKeys} :
        \A k \in DOMAIN e : e[k] \in EntryVals(k)}
NoEntries == [n \in {} |-> None]
Configs ==
    {[hasStacks |-> FALSE, stacks |-> NoEntries], [hasStacks |-> TRUE, stacks |-> NoEntries]}
    \cup {[hasStacks |-> TRUE, stacks |-> [n \in {name} |-> e]] : name \in StackNames, e \in Entries}

\* The configuration the two objects of the model are built from.
SampleConfig ==
    [hasStacks |-> TRUE,
     stacks |-> (api :> ("file" :> Str(file_yml)))
                @@ (shop :> (("file" :> Str(file_yml)) @@ ("swarm" :> Bool(TRUE))
                             @@ ("path" :> Str(srv))))]

----------------------------------------------------------------------------
(* State machine *)

Idle == [op |-> "idle", inst |-> 0, raised |-> "", ret |-> -1, calls |-> <<>>]

Init ==
    /\ stacks = [i \in Instances |->
                    load_stack(SampleConfig, IF i = 1 THEN api ELSE shop).stack]
    /\ rendered = [i \in Instances |-> FALSE]
    /\ failed = [i \in Instances |-> FALSE]
    /\ args = <<>>
    /\ last = Idle
    /\ ctx = [config |-> SampleConfig, stack_name |-> api]
    /\ built = NoStack

RenderFailed(c) == IsRender(c.cmd) /\ (c.raised \/ c.doc = "invalid")

\* The operation on object i is over: its new fields, what it raised, what it
\* returned (count_services), and the Executor calls it made.
Complete(i, op, self, raised, ret, calls) ==
    /\ stacks' = [stacks EXCEPT ![i] = self]
    /\ last' = [op |-> op, inst |-> i, raised |-> raised, ret |-> ret, calls |-> calls]
    /\ rendered' = [rendered EXCEPT
                       ![i] = @ \/ \E n \in 1..Len(calls) : IsRender(calls[n].cmd)]
    /\ failed' = [failed EXCEPT
                     ![i] = @ \/ \E n \in 1..Len(calls) : RenderFailed(calls[n])]
    /\ UNCHANGED <<args, ctx, built>>

Run(self, plan, out) ==
    IF self.kind = "compose" THEN ComposeStack_run(self, plan, out)
    ELSE SwarmStack_run(self, plan, out)

\* A method that builds one command and returns self._run(...) of it; before
\* holds the object and the calls made so far in the method.
Invoke(i, op, before, plan) ==
    IF plan.err # "" THEN Complete(i, op, before.self, plan.err, -1, before.calls)
    ELSE \E out \in Outcomes(plan) :
            LET res == Run(before.self, plan, out)
            IN Complete(i, op, before.self,
                        IF res.raised THEN "CalledProcessError" ELSE "",
                        -1, before.calls \o <<res>>)

Fresh(i) == [self |-> stacks[i], calls |-> <<>>, raised |-> ""]

RenderOutcomes(self) ==
    IF self.loaded THEN {[rc |-> 0, stdout |-> <<>>, doc |-> "none"]}
    ELSE Outcomes(Plan(IF self.kind = "compose" THEN ComposeRender ELSE SwarmRender,
                       TRUE, TRUE, FALSE, FALSE))

\* The single caller makes one call at a time: it chooses the keyword
\* arguments, calls a method of object i, and takes the result.
IsCompose(i) == last = Idle /\ stacks[i].kind = "compose"
IsSwarm(i) == last = Idle /\ stacks[i].kind = "swarm"

Caller ==
    /\ last = Idle
    /\ args' \in Calls \ {args}
    /\ UNCHANGED <<stacks, rendered, failed, last, ctx, built>>

Return ==
    /\ last # Idle
    /\ last' = Idle
    /\ UNCHANGED <<stacks, rendered, failed, args, ctx, built>>

ComposeConfig(i) ==
    /\ IsCompose(i) /\ args = <<>>
    /\ \E out \in RenderOutcomes(stacks[i]) :
          LET ld == ComposeStack_load_config(stacks[i], out)
          IN Complete(i, "config", ld.self, ld.raised, -1, ld.calls)

ComposeCheckConfig(i) ==
    /\ IsCompose(i) /\ args = <<>>
    /\ Invoke(i, "check_config", Fresh(i), ComposeStack_check_config(stacks[i]))

ComposeBuild(i) == IsCompose(i) /\ Invoke(i, "build", Fresh(i), ComposeStack_build(stacks[i], args))
ComposePush(i) == IsCompose(i) /\ Invoke(i, "push", Fresh(i), ComposeStack_push(stacks[i], args))
ComposeUp(i) == IsCompose(i) /\ Invoke(i, "up", Fresh(i), ComposeStack_up(stacks[i], args))
ComposeDown(i) == IsCompose(i) /\ Invoke(i, "down", Fresh(i), ComposeStack_down(stacks[i], args))
ComposeRestart(i) ==
    IsCompose(i) /\ Invoke(i, "restart", Fresh(i), ComposeStack_restart(stacks[i], args))
ComposePs(i) == IsCompose(i) /\ Invoke(i, "ps", Fresh(i), ComposeStack_ps(stacks[i], args))
ComposeLogs(i) == IsCompose(i) /\ Invoke(i, "logs", Fresh(i), ComposeStack_logs(stacks[i], args))
ComposeExec(i) ==
    IsCompose(i)
    /\ Invoke(i, "exec", Fresh(i), ComposeStack_exec(stacks[i], ServiceArg, CmdArg, args))
ComposeRun(i) ==
    IsCompose(i)
    /\ Invoke(i, "run", Fresh(i), ComposeStack_run_service(stacks[i], ServiceArg, CmdArg, args))
ComposeInspect(i) ==
    IsCompose(i)
    /\ Invoke(i, "inspect", Fresh(i),
              ComposeStack_inspect(stacks[i], ServiceArg, DefaultReplicaId, args))

\* count_services(filter=None): len(self.ps(filter=filter).stdout.splitlines())
CountServices(i, ps) ==
    /\ Keys(args) \subseteq {K_filter}
    /\ LET plan == ps
       IN IF plan.err # "" THEN Complete(i, "count_services", stacks[i], plan.err, -1, <<>>)
          ELSE \E out \in Outcomes(plan) :
                  LET res == Run(stacks[i], plan, out)
                  IN Complete(i, "count_services", stacks[i],
                              IF res.raised THEN "CalledProcessError" ELSE "",
                              IF res.raised THEN -1 ELSE Len(splitlines(res.stdout)),
                              <<res>>)

CountCall == <<[k |-> K_filter, v |-> Param(args, K_filter, None)]>>

ComposeCountServices(i) ==
    IsCompose(i) /\ CountServices(i, ComposeStack_ps(stacks[i], CountCall))

ComposeRaw(i) ==
    /\ IsCompose(i) /\ args = <<>>
    /\ Invoke(i, "raw", Fresh(i), ComposeStack_raw(stacks[i], <<ls>>))

\* get_ip_address(service, network): inspect, then the JSON traversal, which
\* finds the address or raises.
ComposeGetIpAddress(i) ==
    /\ IsCompose(i) /\ args = <<>>
    /\ LET plan == ComposeStack_inspect(stacks[i], ServiceArg, DefaultReplicaId, <<>>)
       IN \E out \in Outcomes(plan), found \in BOOLEAN :
             LET res == Run(stacks[i], plan, out)
             IN Complete(i, "get_ip_address", stacks[i],
                         IF res.raised THEN "CalledProcessError"
                         ELSE IF res.rc # 0 THEN "RuntimeError"
                         ELSE IF found THEN "" ELSE "KeyError",
                         -1, <<res>>)

SwarmConfig(i) ==
    /\ IsSwarm(i) /\ args = <<>>
    /\ \E out \in RenderOutcomes(stacks[i]) :
          LET ld == SwarmStack_load_config(stacks[i], out)
          IN Complete(i, "config", ld.self, ld.raised, -1, ld.calls)

SwarmCheckConfig(i) ==
    /\ IsSwarm(i) /\ args = <<>>
    /\ Invoke(i, "check_config", Fresh(i), SwarmStack_check_config(stacks[i]))

SwarmBuild(i) == IsSwarm(i) /\ Invoke(i, "build", Fresh(i), SwarmStack_build(stacks[i], args))
SwarmPush(i) == IsSwarm(i) /\ Invoke(i, "push", Fresh(i), SwarmStack_push(stacks[i], args))

SwarmUp(i) ==
    /\ IsSwarm(i)
    /\ \E out \in RenderOutcomes(stacks[i]) :
          LET ld == SwarmStack_load_config(stacks[i], out)
          IN IF ld.raised # "" THEN Complete(i, "up", ld.self, ld.raised, -1, ld.calls)
             ELSE Invoke(i, "up", ld, SwarmStack_up(ld.self, args))

SwarmDown(i) == IsSwarm(i) /\ Invoke(i, "down", Fresh(i), SwarmStack_down(stacks[i], args))

SwarmRestart(i) ==
    /\ IsSwarm(i)
    /\ IF RestartReadsConfig(args)
       THEN \E out \in RenderOutcomes(stacks[i]) :
               LET ld == SwarmStack_load_config(stacks[i], out)
               IN IF ld.raised # "" THEN Complete(i, "restart", ld.self, ld.raised, -1, ld.calls)
                  ELSE Invoke(i, "restart", ld, SwarmStack_restart(ld.self, args))
       ELSE Invoke(i, "restart", Fresh(i), SwarmStack_restart(stacks[i], args))

SwarmPs(i) == IsSwarm(i) /\ Invoke(i, "ps", Fresh(i), SwarmStack_ps(stacks[i], args))
SwarmCountServices(i) ==
    IsSwarm(i) /\ CountServices(i, SwarmStack_ps(stacks[i], CountCall))
SwarmLogs(i) == IsSwarm(i) /\ Invoke(i, "logs", Fresh(i), SwarmStack_logs(stacks[i], args))
SwarmExec(i) ==
    IsSwarm(i)
    /\ Invoke(i, "exec", Fresh(i), SwarmStack_exec(stacks[i], ServiceArg, CmdArg, args))
SwarmRun(i) ==
    IsSwarm(i)
    /\ Invoke(i, "run", Fresh(i), SwarmStack_run_service(stacks[i], ServiceArg, CmdArg, args))
SwarmInspect(i) ==
    IsSwarm(i)
    /\ Invoke(i, "inspect", Fresh(i),
              SwarmStack_inspect(stacks[i], ServiceArg, DefaultReplicaId, args))

Next ==
    \/ Caller
    \/ Return
    \/ \E i \in Instances :
        \/ ComposeConfig(i) \/ ComposeCheckConfig(i) \/ ComposeBuild(i) \/ ComposePush(i)
        \/ ComposeUp(i) \/ ComposeDown(i) \/ ComposeRestart(i) \/ ComposePs(i)
        \/ ComposeCountServices(i) \/ ComposeLogs(i) \/ ComposeExec(i) \/ ComposeRun(i)
        \/ ComposeInspect(i) \/ ComposeRaw(i) \/ ComposeGetIpAddress(i)
        \/ SwarmConfig(i) \/ SwarmCheckConfig(i) \/ SwarmBuild(i) \/ SwarmPush(i)
        \/ SwarmUp(i) \/ SwarmDown(i) \/ SwarmRestart(i) \/ SwarmPs(i)
        \/ SwarmCountServices(i) \/ SwarmLogs(i) \/ SwarmExec(i) \/ SwarmRun(i)
        \/ SwarmInspect(i)

Spec == Init /\ [][Next]_vars

\* The factory alone: load_stack applied to every configuration of Configs.
LoadStack ==
    \E config \in Configs, stack_name \in StackNames :
        LET r == load_stack(config, stack_name)
        IN /\ ctx' = [config |-> config, stack_name |-> stack_name]
           /\ built' = r.stack
           /\ last' = [op |-> "load_stack", inst |-> 0, raised |-> r.raised,
                       ret |-> -1, calls |-> <<>>]
           /\ UNCHANGED <<stacks, rendered, failed, args>>

NextFactory == LoadStack

SpecFactory == Init /\ [][NextFactory]_vars

----------------------------------------------------------------------------
(* Properties *)

\* The object the last operation was called on, and what the operation itself
\* handed to the Executor (the render of a config read aside).
Self == stacks[last.inst]
OnCompose(op) == last.op = op /\ last.inst \in Instances /\ Self.kind = "compose"
OnSwarm(op) == last.op = op /\ last.inst \in Instances /\ Self.kind = "swarm"
Renders == SelectSeq(last.calls, LAMBDA c : IsRender(c.cmd))
Own == SelectSeq(last.calls, LAMBDA c : ~IsRender(c.cmd))
Flags(c) == {c.cmd[1].flags[n] : n \in 1..Len(c.cmd[1].flags)}
RendersFor(i, l) == {n \in 1..Len(l.calls) : l.inst = i /\ IsRender(l.calls[n].cmd)}

CallerFilters(v) ==
    CASE v.t = "str" -> {Valued(K_filter, v.s)}
      [] v.t \in {"tuple", "list"} -> {Valued(K_filter, v.q[n]) : n \in 1..Len(v.q)}
      [] OTHER -> {}

\* C2: every SwarmStack.ps call dispatches a command that holds the caller's
\* filters and the filter label=com.docker.stack.namespace=<stack name>.
C2_NamespaceFilter ==
    (OnSwarm("ps") /\ Param(args, K_services, List(<<>>)).t = "list") =>
        /\ Len(last.calls) = 1
        /\ Valued(K_filter, NamespaceLabel \o Self.name) \in Flags(last.calls[1])
        /\ CallerFilters(Param(args, K_filter, None)) \subseteq Flags(last.calls[1])

\* chain is one forced service update per name, in the order of names
UpdatesOf(names, chain) ==
    /\ Len(chain) = Len(names)
    /\ \A n \in 1..Len(chain) :
          /\ chain[n].base = "docker service update "
          /\ chain[n].pre = <<>>
          /\ Cardinality({m \in 1..Len(chain[n].flags) : chain[n].flags[m] = Bare(K_force)}) = 1
          /\ chain[n].tail = <<names[n]>>
          /\ chain[n].post = ""

\* C3: SwarmStack.restart without services resolves the config and hands the
\* Executor one command, the chain of one forced update per service of the
\* config in the config's order; with a list of services it chains that list
\* and does not read the config.
C3_RestartChain ==
    OnSwarm("restart") =>
        /\ Len(Own) <= 1 /\ Len(Renders) <= 1
        /\ ~Has(args, K_services) =>
              /\ (Self.loaded /\ Self.config.hasServices) => Len(Own) = 1
              /\ Len(Own) = 1 =>
                    /\ Self.loaded
                    /\ last.calls[Len(last.calls)] = Own[1]
                    /\ UpdatesOf(Self.config.services, Own[1].cmd)
        /\ (Has(args, K_services) /\ Get(args, K_services).t = "list") =>
              /\ Len(last.calls) = 1
              /\ Renders = <<>>
              /\ UpdatesOf(Get(args, K_services).q, last.calls[1].cmd)

\* restart() chained the two services of a config it had to resolve first.
C3_Witness ==
    /\ OnSwarm("restart")
    /\ ~Has(args, K_services)
    /\ Len(Renders) = 1
    /\ Len(Own) = 1
    /\ Len(Own[1].cmd) = 2
    /\ Own[1].cmd[1].tail # Own[1].cmd[2].tail

SwitchOps ==
    {"build", "push", "up", "down", "restart", "ps", "logs", "exec", "run", "inspect"}

\* C5: each of the ten operations passes the Executor the caller's _pipe and
\* _check, or else pipe=True, check=False for ps and pipe=False, check=True
\* for the others, and neither switch becomes a flag of the command.
C5_Switches ==
    (last.op \in SwitchOps /\ Own # <<>>) =>
        /\ Own[1].pipeGiven /\ Own[1].checkGiven
        /\ Own[1].pipe = Param(args, K_pipe, Bool(last.op = "ps")).b
        /\ Own[1].check = Param(args, K_check, Bool(last.op # "ps")).b
        /\ \A n \in 1..Len(Own[1].cmd) : \A m \in 1..Len(Own[1].cmd[n].flags) :
              Own[1].cmd[n].flags[m].key \notin {K_pipe, K_check, Dash(K_pipe), Dash(K_check)}

\* The three invalid shapes of the configuration given to load_stack.
NoSection == ~ctx.config.hasStacks
UnknownName == ctx.config.hasStacks /\ ctx.stack_name \notin DOMAIN ctx.config.stacks
Entry == ctx.config.stacks[ctx.stack_name]
NoFile == ctx.config.hasStacks /\ ctx.stack_name \in DOMAIN ctx.config.stacks
          /\ "file" \notin DOMAIN Entry

\* C6: load_stack raises the same configuration error, and builds nothing,
\* when the stacks section is missing, when the name is not in it, and when
\* the entry has no file.
C6_ConfigError ==
    (last.op = "load_stack" /\ (NoSection \/ UnknownName \/ NoFile)) =>
        /\ last.raised = "BadParameter"
        /\ built = NoStack

HasFile == ctx.config.hasStacks /\ ctx.stack_name \in DOMAIN ctx.config.stacks
           /\ "file" \in DOMAIN Entry /\ Entry["file"].t = "str"

\* C7: for an entry with a file, load_stack returns a SwarmStack exactly when
\* the entry's swarm is present and true and a ComposeStack otherwise, named
\* stack_name, based at the entry's path or else the working directory, and
\* un-resolved, with nothing dispatched to the Executor.
C7_Factory ==
    (last.op = "load_stack" /\ HasFile) =>
        /\ last.raised = ""
        /\ built.kind = IF "swarm" \in DOMAIN Entry /\ Entry["swarm"] = Bool(TRUE)
                        THEN "swarm" ELSE "compose"
        /\ built.name = ctx.stack_name
        /\ built.basedir = IF "path" \in DOMAIN Entry THEN Entry["path"].s ELSE Cwd
        /\ ~built.loaded
        /\ last.calls = <<>>

\* A SwarmStack built from an entry without a path.
C7_Witness ==
    /\ last.op = "load_stack"
    /\ HasFile
    /\ built.kind = "swarm"
    /\ "path" \notin DOMAIN Entry

\* C8: count_services(filter), for every filter and for the default None,
\* runs ps with output captured and no raise on a nonzero exit, and returns
\* the number of lines of the captured stdout.
C8_CountServices ==
    last.op = "count_services" =>
        /\ last.raised = ""
        /\ Len(last.calls) = 1
        /\ IsPs(last.calls[1].cmd)
        /\ last.calls[1].pipe /\ ~last.calls[1].check
        /\ last.ret = Len(splitlines(last.calls[1].stdout))

\* The flags of the dispatched command that encode the services option.
ServicesFlags(c) ==
    SelectSeq(c.cmd[1].flags, LAMBDA f : f.key = K_services)

\* C9: ComposeStack.ps with a filter and no services option dispatches a
\* command with the services toggle; a services option the caller passes is
\* kept as passed; without a filter the toggle is not added.
C9_ServicesToggle ==
    OnCompose("ps") =>
        /\ (Has(args, K_filter) /\ ~Has(args, K_services)) =>
              /\ Len(last.calls) = 1
              /\ ServicesFlags(last.calls[1]) = <<Bare(K_services)>>
        /\ Has(args, K_services) =>
              /\ Len(last.calls) = 1
              /\ ServicesFlags(last.calls[1])
                    = FlagsOf([k |-> K_services, v |-> Get(args, K_services)])
        /\ (~Has(args, K_filter) /\ ~Has(args, K_services)) =>
              /\ Len(last.calls) = 1
              /\ ServicesFlags(last.calls[1]) = <<>>

\* The environment and base directory each object is constructed with.
EnvAtConstruction(i) ==
    IF i = 1
    THEN [k \in {"PATH", "COMPOSE_FILE", "COMPOSE_PROJECT_NAME"} |->
             IF k = "PATH" THEN Environ["PATH"]
             ELSE IF k = "COMPOSE_FILE" THEN file_yml ELSE api]
    ELSE [k \in {"COMPOSE_FILE"} |-> file_yml]
BasedirAtConstruction(i) == IF i = 1 THEN Cwd ELSE srv

\* C10: an object's environment and base directory stay what construction
\* made them, every Executor call of every operation gets exactly these, and
\* an operation on one object leaves every other object untouched.
C10_EnvFrame ==
    /\ [](\A i \in Instances :
            /\ stacks[i].env = EnvAtConstruction(i)
            /\ stacks[i].basedir = BasedirAtConstruction(i))
    /\ [](\A n \in 1..Len(last.calls) :
            /\ last.calls[n].env = EnvAtConstruction(last.inst)
            /\ last.calls[n].cwd = BasedirAtConstruction(last.inst))
    /\ [][\A i \in Instances : last'.inst # i => stacks'[i] = stacks[i]]_vars

\* Both objects have resolved their configs, each with its own render, and
\* the last call ran in the second object's environment.
C10_Witness ==
    /\ stacks[1].loaded /\ stacks[2].loaded
    /\ stacks[1].config # stacks[2].config
    /\ last.inst = 2
    /\ last.calls # <<>>

====
